---------------------------- MODULE Spec2Model ----------------------------
(***************************************************************************)
(* Model of pyEDF/EDF.py: one EDFWriter session and one EDFReader session  *)
(* sharing one file.  The file is a sequence of bytes (0..255); text is    *)
(* ASCII (32 = ' ', 45 = '-', 46 = '.', 48..57 = '0'..'9').                *)
(*                                                                         *)
(* Floating-point numbers are modelled as exact rationals <<n, d>> with    *)
(* d >= 0; d = 0 encodes the IEEE results of a division by zero            *)
(* (<<1,0>> = inf, <<-1,0>> = -inf, <<0,0>> = nan).  Physical values given *)
(* by the caller are integral floats, digital values are integers.         *)
(***************************************************************************)
EXTENDS Integers, Sequences, FiniteSets, TLC

(***************************************************************************)
(* Arithmetic helpers.                                                     *)
(***************************************************************************)
Abs(x) == IF x < 0 THEN -x ELSE x

Sgn(x) == IF x < 0 THEN -1 ELSE IF x > 0 THEN 1 ELSE 0

RECURSIVE Gcd(_, _)
Gcd(a, b) == IF b = 0 THEN a ELSE Gcd(b, a % b)

\* Python's int(x) on a quotient of integers: truncation toward zero.
TruncDiv(a, b) == Sgn(a) * Sgn(b) * (Abs(a) \div Abs(b))

\* A float: the quotient n/d in lowest terms, or inf/-inf/nan when d = 0.
Norm(n, d) ==
    IF d = 0 THEN <<Sgn(n), 0>>
    ELSE LET g == Gcd(Abs(n), Abs(d))
         IN  <<Sgn(d) * (n \div g), Abs(d) \div g>>

RatOfInt(i) == <<i, 1>>
IsFinite(x) == x[2] > 0
RatAdd(x, y) ==
    IF IsFinite(x) /\ IsFinite(y) THEN Norm(x[1] * y[2] + y[1] * x[2], x[2] * y[2])
    ELSE IF IsFinite(x) THEN y
    ELSE IF IsFinite(y) THEN x
    ELSE IF x = y THEN x ELSE <<0, 0>>
RatNeg(x) == <<-x[1], x[2]>>
RatSub(x, y) == RatAdd(x, RatNeg(y))
RatMul(x, y) == Norm(x[1] * y[1], x[2] * y[2])
\* numpy float division: x/0 is inf, -inf or nan (a warning, no exception).
RatDiv(x, y) ==
    IF IsFinite(x) /\ IsFinite(y) THEN Norm(x[1] * y[2], x[2] * y[1])
    ELSE IF IsFinite(x) THEN (IF y[1] = 0 THEN <<0, 0>> ELSE <<0, 1>>)
    ELSE IF IsFinite(y) THEN <<x[1] * (IF y[1] < 0 THEN -1 ELSE 1), 0>>
    ELSE <<0, 0>>
\* Comparisons; every comparison with nan is false.
RatLt(x, y) ==
    IF IsFinite(x) /\ IsFinite(y) THEN x[1] * y[2] < y[1] * x[2]
    ELSE IF x[1] = 0 /\ ~IsFinite(x) THEN FALSE
    ELSE IF y[1] = 0 /\ ~IsFinite(y) THEN FALSE
    ELSE IF ~IsFinite(x) /\ ~IsFinite(y) THEN x[1] < y[1]
    ELSE IF ~IsFinite(x) THEN x[1] < 0
    ELSE y[1] > 0
RatAbs(x) == <<Abs(x[1]), x[2]>>

(***************************************************************************)
(* Text helpers.                                                           *)
(***************************************************************************)
Spaces(k) == [i \in 1..k |-> 32]

IsDigit(c) == c >= 48 /\ c <= 57

\* bytes.strip() whitespace: space, \t, \n, \v, \f, \r.
IsSpace(c) == c = 32 \/ (c >= 9 /\ c <= 13)

RECURSIVE Digits(_)
Digits(n) == IF n < 10 THEN <<48 + n>> ELSE Digits(n \div 10) \o <<48 + (n % 10)>>

\* str(i) of an integer.
Str(i) == IF i < 0 THEN <<45>> \o Digits(-i) ELSE Digits(i)

\* str(x) of an integral float: "-200.0".
StrFloat(i) == Str(i) \o <<46, 48>>

\* '{:0>2d}'.format(i): right-aligned in width 2, filled with '0'.
Fmt02d(i) == LET s == Str(i) IN IF Len(s) < 2 THEN <<48>> \o s ELSE s

\* buf[0:k] for k < 0 drops the last -k characters.
padtrim(buf, num) ==
    LET k == num - Len(buf)
    IN  IF k >= 0 THEN buf \o Spaces(k)
        ELSE SubSeq(buf, 1, Len(buf) + k)

RECURSIVE lstrip(_)
lstrip(s) == IF s # <<>> /\ IsSpace(Head(s)) THEN lstrip(Tail(s)) ELSE s

RECURSIVE rstrip(_)
rstrip(s) ==
    IF s # <<>> /\ IsSpace(s[Len(s)]) THEN rstrip(SubSeq(s, 1, Len(s) - 1)) ELSE s

strip(s) == rstrip(lstrip(s))

RECURSIVE DigitsValue(_, _)
DigitsValue(s, acc) ==
    IF s = <<>> THEN acc ELSE DigitsValue(Tail(s), 10 * acc + (Head(s) - 48))

AllDigits(s) == s # <<>> /\ \A i \in 1..Len(s) : IsDigit(s[i])

\* re.findall('(\d+)', s) mapped through int: the maximal digit runs of s.
RECURSIVE findall_digits(_, _, _)
findall_digits(s, cur, out) ==
    IF s = <<>> THEN (IF cur = <<>> THEN out ELSE Append(out, DigitsValue(cur, 0)))
    ELSE IF IsDigit(Head(s)) THEN findall_digits(Tail(s), Append(cur, Head(s)), out)
    ELSE findall_digits(Tail(s), <<>>,
                        IF cur = <<>> THEN out ELSE Append(out, DigitsValue(cur, 0)))

\* The text of a number without its sign.
Unsigned(t) == IF t # <<>> /\ Head(t) \in {43, 45} THEN Tail(t) ELSE t
SignOf(t) == IF t # <<>> /\ Head(t) = 45 THEN -1 ELSE 1

\* int(s): surrounding whitespace and one sign are accepted; <<>> is ValueError.
ParseInt(s) ==
    IF AllDigits(Unsigned(strip(s)))
    THEN <<SignOf(strip(s)) * DigitsValue(Unsigned(strip(s)), 0)>>
    ELSE <<>>

RECURSIVE Pow10(_)
Pow10(k) == IF k = 0 THEN 1 ELSE 10 * Pow10(k - 1)

\* The position of the first '.' of u, Len(u) + 1 when it has none.
RECURSIVE DotAt(_, _)
DotAt(u, i) == IF i > Len(u) \/ u[i] = 46 THEN i ELSE DotAt(u, i + 1)

\* The value of sign, integer digits ip and fraction digits fp.
DecimalValue(sg, ip, fp) ==
    IF (\A i \in 1..Len(ip) : IsDigit(ip[i])) /\ (\A i \in 1..Len(fp) : IsDigit(fp[i]))
       /\ Len(ip) + Len(fp) > 0
    THEN <<Norm(sg * (DigitsValue(ip, 0) * Pow10(Len(fp)) + DigitsValue(fp, 0)),
                Pow10(Len(fp)))>>
    ELSE <<>>

SplitDecimal(sg, u, p) == DecimalValue(sg, SubSeq(u, 1, p - 1), SubSeq(u, p + 1, Len(u)))

\* float(s) for decimal text [sign] digits [ '.' digits ]; <<>> is ValueError.
ParseFloat(s) ==
    SplitDecimal(SignOf(strip(s)), Unsigned(strip(s)), DotAt(Unsigned(strip(s)), 1))

(***************************************************************************)
(* Optional values: <<>> is None (or a missing dict key), <<v>> is v.      *)
(***************************************************************************)
None == <<>>
Some(v) == <<v>>
Val(o) == o[1]

RECURSIVE SumSeq(_)
SumSeq(s) == IF s = <<>> THEN 0 ELSE Head(s) + SumSeq(Tail(s))

RECURSIVE Concat(_)
Concat(ss) == IF ss = <<>> THEN <<>> ELSE Head(ss) \o Concat(Tail(ss))

Min2(a, b) == IF a < b THEN a ELSE b
Max2(a, b) == IF a > b THEN a ELSE b

\* 'edf', 'bdf' and '24BIT' in ASCII.
EDF == <<101, 100, 102>>
BDF == <<98, 100, 102>>
BIT24 == <<50, 52, 66, 73, 84>>

\* 2 bytes per sample, 3 for the subtypes '24BIT' and 'bdf'.
DataSizeOf(subtype) == IF subtype \in {BIT24, BDF} THEN 3 ELSE 2

(***************************************************************************)
(* EDFWriter.writeHeader: the header as bytes, and the header as stored.   *)
(* A header argument is [meas |-> ..., chan |-> ...]; its optional keys    *)
(* are Optional values, its optional lists may be shorter than nchan.      *)
(***************************************************************************)
FillMeas(m) ==
    [m EXCEPT !.subject_id = IF m.subject_id = None THEN Some(<<>>) ELSE @,
              !.recording_id = IF m.recording_id = None THEN Some(<<>>) ELSE @,
              !.subtype = IF m.subtype = None THEN Some(EDF) ELSE @]

FillChan(c, nchan) ==
    [c EXCEPT !.ch_names = IF Len(@) < nchan THEN [i \in 1..nchan |-> Str(i - 1)] ELSE @,
              !.transducers = IF Len(@) < nchan THEN [i \in 1..nchan |-> <<>>] ELSE @,
              !.units = IF Len(@) < nchan THEN [i \in 1..nchan |-> <<>>] ELSE @]

\* The bytes written by lines 143-186, in file order.
HeaderBytes(m, c) ==
    LET n == m.nchan
        F(f(_)) == Concat([i \in 1..n |-> f(i)])
        name(i) == padtrim(c.ch_names[i], 16)
        trans(i) == padtrim(c.transducers[i], 80)
        unit(i) == padtrim(c.units[i], 8)
        pmin(i) == padtrim(StrFloat(c.physical_min[i]), 8)
        pmax(i) == padtrim(StrFloat(c.physical_max[i]), 8)
        dmin(i) == padtrim(Str(c.digital_min[i]), 8)
        dmax(i) == padtrim(Str(c.digital_max[i]), 8)
        pref(i) == Spaces(80)
        nsamp(i) == padtrim(Str(c.n_samps[i]), 8)
        resv(i) == Spaces(32)
        dot == <<46>>
    IN  padtrim(<<48>>, 8)
        \o padtrim(Val(m.subject_id), 80)
        \o padtrim(Val(m.recording_id), 80)
        \o padtrim(Fmt02d(m.day) \o dot \o Fmt02d(m.month) \o dot \o Fmt02d(m.year), 8)
        \o padtrim(Fmt02d(m.hour) \o dot \o Fmt02d(m.minute) \o dot \o Fmt02d(m.second), 8)
        \o padtrim(Str(256 + 256 * n), 8)
        \o Spaces(44)
        \o padtrim(Str(-1), 8)
        \o padtrim(StrFloat(m.record_length), 8)
        \o padtrim(Str(n), 4)
        \o F(name) \o F(trans) \o F(unit) \o F(pmin) \o F(pmax)
        \o F(dmin) \o F(dmax) \o F(pref) \o F(nsamp) \o F(resv)

\* self.calibrate and self.offset as derived by writeHeader (lines 191-199).
WriterCalibrate(c, nchan) ==
    [i \in 1..nchan |->
        LET cal == RatDiv(RatSub(RatOfInt(c.physical_max[i]), RatOfInt(c.physical_min[i])),
                          RatOfInt(c.digital_max[i] - c.digital_min[i]))
        IN  IF RatLt(cal, <<0, 1>>) THEN <<1, 1>> ELSE cal]

WriterOffset(c, nchan) ==
    [i \in 1..nchan |->
        LET cal == RatDiv(RatSub(RatOfInt(c.physical_max[i]), RatOfInt(c.physical_min[i])),
                          RatOfInt(c.digital_max[i] - c.digital_min[i]))
            off == RatSub(RatOfInt(c.physical_min[i]),
                          RatMul(cal, RatOfInt(c.digital_min[i])))
        IN  IF RatLt(cal, <<0, 1>>) THEN <<0, 1>> ELSE off]

\* meas_info as left in the session: defaults filled, data_size and data_offset set.
WriterMeas(m, nbytes) ==
    LET f == FillMeas(m)
    IN  [nchan |-> f.nchan, subject_id |-> Val(f.subject_id),
         recording_id |-> Val(f.recording_id), subtype |-> Val(f.subtype),
         day |-> f.day, month |-> f.month, year |-> f.year,
         hour |-> f.hour, minute |-> f.minute, second |-> f.second,
         record_length |-> f.record_length,
         data_size |-> DataSizeOf(Val(f.subtype)), data_offset |-> nbytes]

\* chan_info as left in the session.  self.offset IS chan_info['physical_min']
\* (line 193 binds the same array), so the in-place updates of self.offset in
\* lines 194 and 199 are updates of chan_info['physical_min'].
WriterChan(c, nchan) ==
    LET f == FillChan(c, nchan)
    IN  [ch_names |-> f.ch_names, transducers |-> f.transducers, units |-> f.units,
         physical_min |-> WriterOffset(c, nchan),
         physical_max |-> [i \in 1..nchan |-> RatOfInt(c.physical_max[i])],
         digital_min |-> c.digital_min, digital_max |-> c.digital_max,
         n_samps |-> c.n_samps]


(***************************************************************************)
(* EDFReader.readHeader.                                                   *)
(***************************************************************************)
\* fid.read(k) at cursor pos: at most k bytes, fewer at the end of the file.
FRead(f, pos, k) == SubSeq(f, Min2(pos, Len(f)) + 1, Min2(pos + k, Len(f)))

\* The path's extension, lower-cased (line 281); the modelled path ends in '.edf'.
FileExt == EDF

\* The nchan numeric fields (8 bytes each) that start at cursor pos, through
\* float (_read_chan_byte); None where float raises.
FloatFields(f, pos, nchan) == [i \in 1..nchan |-> ParseFloat(FRead(f, pos + (i - 1) * 8, 8))]

\* The nchan text fields of width w that start at cursor pos, stripped.
TextFields(f, pos, w, nchan) == [i \in 1..nchan |-> strip(FRead(f, pos + (i - 1) * w, w))]

Vals(fields) == [i \in 1..Len(fields) |-> Val(fields[i])]

\* self.calibrate as derived by readHeader (lines 360-369).
ReaderCalibrate(pmin, pmax, dmin, dmax) ==
    [i \in 1..Len(pmin) |->
        IF RatLt(RatDiv(RatSub(pmax[i], pmin[i]), RatSub(dmax[i], dmin[i])), <<0, 1>>)
        THEN <<1, 1>>
        ELSE RatDiv(RatSub(pmax[i], pmin[i]), RatSub(dmax[i], dmin[i]))]

ReaderOffset(pmin, pmax, dmin, dmax) ==
    [i \in 1..Len(pmin) |->
        IF RatLt(RatDiv(RatSub(pmax[i], pmin[i]), RatSub(dmax[i], dmin[i])), <<0, 1>>)
        THEN <<0, 1>>
        ELSE RatSub(pmin[i],
                    RatMul(RatDiv(RatSub(pmax[i], pmin[i]), RatSub(dmax[i], dmin[i])),
                           dmin[i]))]

\* n_records when the header holds -1 (lines 354-358): the first division is
\* between integers, the second is by the float sum(n_samps).
ComputedRecords(size, data_offset, data_size, n_samps) ==
    RatDiv(RatOfInt((size - data_offset) \div data_size),
           RatOfInt(SumSeq([i \in 1..Len(n_samps) |-> n_samps[i][1]])))

\* The first five characters of the stripped reserved field, or the path's
\* extension when that field is blank (lines 277-281).
ReadSubtype(f) ==
    IF Len(strip(FRead(f, 192, 44))) > 0
    THEN SubSeq(strip(FRead(f, 192, 44)), 1, Min2(5, Len(strip(FRead(f, 192, 44)))))
    ELSE FileExt

\* Whether readHeader returns: every numeric field parses, the date and the
\* time hold exactly three numbers, and the cursor ends at the declared size.
HeaderParses(f) ==
    /\ Len(findall_digits(FRead(f, 168, 8), <<>>, <<>>)) = 3
    /\ Len(findall_digits(FRead(f, 176, 8), <<>>, <<>>)) = 3
    /\ ParseInt(FRead(f, 184, 8)) # None
    /\ ParseInt(FRead(f, 236, 8)) # None
    /\ ParseFloat(FRead(f, 244, 8)) # None
    /\ ParseInt(FRead(f, 252, 4)) # None
    /\ \A i \in 1..Val(ParseInt(FRead(f, 252, 4))) :
          /\ ParseFloat(FRead(f, 256 + 104 * Val(ParseInt(FRead(f, 252, 4))) + (i - 1) * 8, 8)) # None
          /\ ParseFloat(FRead(f, 256 + 112 * Val(ParseInt(FRead(f, 252, 4))) + (i - 1) * 8, 8)) # None
          /\ ParseFloat(FRead(f, 256 + 120 * Val(ParseInt(FRead(f, 252, 4))) + (i - 1) * 8, 8)) # None
          /\ ParseFloat(FRead(f, 256 + 128 * Val(ParseInt(FRead(f, 252, 4))) + (i - 1) * 8, 8)) # None
          /\ ParseFloat(FRead(f, 256 + 216 * Val(ParseInt(FRead(f, 252, 4))) + (i - 1) * 8, 8)) # None
    /\ Min2(256 + 256 * Val(ParseInt(FRead(f, 252, 4))), Len(f)) = Val(ParseInt(FRead(f, 184, 8)))

\* record_length, with 0 replaced by 1 (lines 291-297).
ReadRecordLength(rl) == IF rl[1] = 0 /\ IsFinite(rl) THEN <<1, 1>> ELSE rl

\* meas_info as built by lines 260-298 and 354-358.  The prefiltering strings
\* are read and skipped: highpass and lowpass are not modelled.
ReadMeas(f, date, time, nbytes, nrec, n, n_samps) ==
    [magic |-> strip(FRead(f, 0, 8)),
     subject_id |-> strip(FRead(f, 8, 80)),
     recording_id |-> strip(FRead(f, 88, 80)),
     day |-> date[1], month |-> date[2], year |-> date[3],
     hour |-> time[1], minute |-> time[2], second |-> time[3],
     data_offset |-> nbytes,
     subtype |-> ReadSubtype(f),
     data_size |-> DataSizeOf(ReadSubtype(f)),
     n_records |-> IF nrec = -1
                   THEN ComputedRecords(Len(f), nbytes, DataSizeOf(ReadSubtype(f)), n_samps)
                   ELSE RatOfInt(nrec),
     record_length |-> ReadRecordLength(Val(ParseFloat(FRead(f, 244, 8)))),
     nchan |-> n]

\* chan_info as returned.  self.offset IS chan_info['physical_min'] (line 363
\* binds the same array), so lines 364 and 369 update chan_info['physical_min'].
ReadChan(f, n, pmin, pmax, dmin, dmax, n_samps) ==
    [ch_names |-> TextFields(f, 256, 16, n),
     transducers |-> TextFields(f, 256 + 16 * n, 80, n),
     units |-> TextFields(f, 256 + 96 * n, 8, n),
     physical_min |-> ReaderOffset(pmin, pmax, dmin, dmax),
     physical_max |-> pmax,
     digital_min |-> dmin,
     digital_max |-> dmax,
     n_samps |-> n_samps]

ReadParsed(f, n, pmin, pmax, dmin, dmax, n_samps) ==
    [meas |-> ReadMeas(f, findall_digits(FRead(f, 168, 8), <<>>, <<>>),
                       findall_digits(FRead(f, 176, 8), <<>>, <<>>),
                       Val(ParseInt(FRead(f, 184, 8))),
                       Val(ParseInt(FRead(f, 236, 8))), n, n_samps),
     chan |-> ReadChan(f, n, pmin, pmax, dmin, dmax, n_samps),
     calibrate |-> ReaderCalibrate(pmin, pmax, dmin, dmax),
     offset |-> ReaderOffset(pmin, pmax, dmin, dmax)]

ReadFields(f, n) ==
    ReadParsed(f, n, Vals(FloatFields(f, 256 + 104 * n, n)),
               Vals(FloatFields(f, 256 + 112 * n, n)),
               Vals(FloatFields(f, 256 + 120 * n, n)),
               Vals(FloatFields(f, 256 + 128 * n, n)),
               Vals(FloatFields(f, 256 + 216 * n, n)))

\* readHeader: [meas, chan, calibrate, offset], or None when it raises.
ReadHeader(f) ==
    IF HeaderParses(f) THEN Some(ReadFields(f, Val(ParseInt(FRead(f, 252, 4))))) ELSE None

(***************************************************************************)
(* EDFWriter.writeBlock.  Channels are numbered from 1 in the model.       *)
(***************************************************************************)
Wrap16(t) == ((t + 32768) % 65536) - 32768

\* The cast of inf, nan or a value outside the int16 range is undefined in C:
\* the build either keeps the low 16 bits of a wider conversion or saturates.
UBOutcomes == {"wrap", "saturate"}

\* np.asarray(raw, dtype=np.int16) of one float: truncation toward zero.
ToInt16(q, ub) ==
    IF ~IsFinite(q)
    THEN (IF ub = "wrap" THEN 0 ELSE IF q[1] > 0 THEN 32767 ELSE IF q[1] < 0 THEN -32768 ELSE 0)
    ELSE LET t == TruncDiv(q[1], q[2])
         IN  IF t >= -32768 /\ t <= 32767 THEN t
             ELSE IF ub = "wrap" THEN Wrap16(t)
             ELSE IF t > 0 THEN 32767 ELSE -32768

\* pack('h', x): two bytes, low byte first.
PackH(x) == LET u == x % 65536 IN <<u % 256, u \div 256>>

\* (raw - offset[i]) / calibrate[i] for one sample (lines 218-219).
ToDigital(v, cal, off) == RatDiv(RatSub(RatOfInt(v), off), cal)

\* The bytes written for channel i (lines 218-224).
PackRun(run, cal, off, ub) ==
    Concat([j \in 1..Len(run) |-> PackH(ToInt16(ToDigital(run[j], cal, off), ub))])

SeqMin(run) == CHOOSE v \in {run[j] : j \in 1..Len(run)} : \A j \in 1..Len(run) : v <= run[j]
SeqMax(run) == CHOOSE v \in {run[j] : j \in 1..Len(run)} : \A j \in 1..Len(run) : v >= run[j]

\* The warnings of lines 212-215 for channel i: the bounds are read from
\* chan_info as stored in the session.
RangeWarned(run, chan, i) ==
    \/ RatLt(RatOfInt(SeqMin(run)), chan.physical_min[i])
    \/ RatLt(chan.physical_max[i], RatOfInt(SeqMax(run)))

\* The first channel whose entry is missing or fails the assertion of line 211;
\* 0 when every channel passes.
FirstBadChannel(data, chan, nchan) ==
    LET bad == {i \in 1..nchan : i > Len(data) \/ Len(data[i]) # chan.n_samps[i]}
    IN  IF bad = {} THEN 0 ELSE CHOOSE i \in bad : \A j \in bad : i <= j

\* The channels whose samples reach the file: all of them, or those before the
\* first bad channel (the file is flushed when the with-block is left).
ChannelsWritten(data, chan, nchan) ==
    LET k == FirstBadChannel(data, chan, nchan)
    IN  IF k = 0 THEN nchan ELSE k - 1

BlockBytes(data, chan, cal, off, nchan, ub) ==
    Concat([i \in 1..ChannelsWritten(data, chan, nchan) |->
                PackRun(data[i], cal[i], off[i], ub)])

(***************************************************************************)
(* EDFWriter.close: the copy of the file with the record count filled in.  *)
(***************************************************************************)
\* The copy loop run as range(n - 1): the last record is not copied.
CopyBlocksDropLast(f, pos, bsize, n) == FRead(f, pos, bsize * (n - 1))

\* for block in range(n): fid2.write(fid1.read(bsize)), from cursor pos.
RECURSIVE CopyBlocks(_, _, _, _)
CopyBlocks(f, pos, bsize, n) ==
    IF n <= 0 THEN <<>>
    ELSE FRead(f, pos, bsize) \o CopyBlocks(f, Min2(pos + bsize, Len(f)), bsize, n - 1)

\* np.sum(chan_info['n_samps']) * meas_info['data_size'] (line 97).
WriterBlockSize(meas, chan) == SumSeq(chan.n_samps) * meas.data_size

ClosedFile(f, meas, chan, n_records) ==
    FRead(f, 0, 236)
    \o padtrim(Str(n_records), 8)
    \o FRead(f, 244, meas.data_offset - 236 - 8)
    \o CopyBlocks(f, Min2(meas.data_offset, Len(f)), WriterBlockSize(meas, chan), n_records)

(***************************************************************************)
(* EDFReader.readBlock and EDFReader.readSamples.                          *)
(***************************************************************************)
\* unpack('<h', ...) of two bytes.
UnpackH(lo, hi) == LET u == lo + 256 * hi IN IF u >= 32768 THEN u - 65536 ELSE u

\* n_samps[i] as a count (an integral float in the header).
NSamps(chan, i) == TruncDiv(chan.n_samps[i][1], chan.n_samps[i][2])

ReaderBlockSize(meas, chan) ==
    SumSeq([i \in 1..meas.nchan |-> NSamps(chan, i)]) * meas.data_size

\* Channel i of the block at cursor pos: raw * calibrate[i] + offset[i].
DecodeRun(buf, cal, off) ==
    [j \in 1..(Len(buf) \div 2) |->
        RatAdd(RatMul(RatOfInt(UnpackH(buf[2 * j - 1], buf[2 * j])), cal), off)]

\* The channels from i on, read from cursor pos; None when unpack raises
\* struct.error (the buffer does not hold exactly n_samps[i] shorts).
RECURSIVE ReadChannels(_, _, _, _, _, _, _)
ReadChannels(f, pos, i, meas, chan, cal, off) ==
    IF i > meas.nchan THEN Some(<<>>)
    ELSE LET buf == FRead(f, pos, NSamps(chan, i) * meas.data_size)
             rest == ReadChannels(f, Min2(pos, Len(f)) + Len(buf), i + 1,
                                  meas, chan, cal, off)
         IN  IF Len(buf) # 2 * NSamps(chan, i) \/ rest = None THEN None
             ELSE Some(<<DecodeRun(buf, cal[i], off[i])>> \o Val(rest))

\* readBlock(block): one sequence of physical values per channel, or None
\* when the call raises.
readBlock(f, meas, chan, cal, off, block) ==
    IF block < 0 THEN None
    ELSE ReadChannels(f, meas.data_offset + block * ReaderBlockSize(meas, chan), 1,
                      meas, chan, cal, off)

\* data[i:j] with Python's treatment of negative and too large indices.
PyIndex(k, len) == IF k < 0 THEN Max2(k + len, 0) ELSE Min2(k, len)
PySlice(s, i, j) == SubSeq(s, PyIndex(i, Len(s)) + 1, PyIndex(j, Len(s)))

\* The blocks begblock+1 .. endblock of one channel appended to data.
RECURSIVE AppendBlocks(_, _, _, _, _, _, _, _, _)
AppendBlocks(f, meas, chan, cal, off, ch, data, block, endblock) ==
    IF block > endblock THEN Some(data)
    ELSE LET blk == readBlock(f, meas, chan, cal, off, block)
         IN  IF blk = None THEN None
             ELSE AppendBlocks(f, meas, chan, cal, off, ch,
                               data \o Val(blk)[ch], block + 1, endblock)

\* readSamples without the shift of the sample numbers by begblock * n_samps.
readSamplesUnshifted(f, meas, chan, cal, off, ch, begsample, endsample) ==
    LET n_samps == NSamps(chan, ch)
        begblock == TruncDiv(begsample, n_samps)
        endblock == TruncDiv(endsample, n_samps)
        first == readBlock(f, meas, chan, cal, off, begblock)
        data == IF first = None THEN None
                ELSE AppendBlocks(f, meas, chan, cal, off, ch,
                                  Val(first)[ch], begblock + 1, endblock)
    IN  IF data = None THEN None
        ELSE Some(PySlice(Val(data), begsample, endsample + 1))

readSamples(f, meas, chan, cal, off, ch, begsample, endsample) ==
    LET n_samps == NSamps(chan, ch)
        begblock == TruncDiv(begsample, n_samps)
        endblock == TruncDiv(endsample, n_samps)
        first == readBlock(f, meas, chan, cal, off, begblock)
        data == IF first = None THEN None
                ELSE AppendBlocks(f, meas, chan, cal, off, ch,
                                  Val(first)[ch], begblock + 1, endblock)
    IN  IF data = None THEN None
        ELSE Some(PySlice(Val(data), begsample - begblock * n_samps,
                          endsample - begblock * n_samps + 1))


(***************************************************************************)
(* Inputs.  Text: 'ab' = <<97,98>>, 'uV' = <<117,86>>.                     *)
(***************************************************************************)
\* Largest number of data records a session appends.
MaxBlocks == 2

\* Two channels, every key given and within its field width; scale 3 with
\* offset 0 on channel 1, scale 1/2 with offset 1/2 on channel 2.
Header1 ==
    [meas |-> [nchan |-> 2, subject_id |-> Some(<<97, 32, 98>>),
               recording_id |-> Some(<<99, 100>>), subtype |-> Some(EDF),
               day |-> 1, month |-> 2, year |-> 16,
               hour |-> 3, minute |-> 4, second |-> 5, record_length |-> 1],
     chan |-> [ch_names |-> <<<<120>>, <<121>>>>,
               transducers |-> <<<<116>>, <<116, 50>>>>,
               units |-> <<<<117, 86>>, <<117, 86>>>>,
               physical_min |-> <<-6, -3>>, physical_max |-> <<6, 7>>,
               digital_min |-> <<-2, -7>>, digital_max |-> <<2, 13>>,
               n_samps |-> <<2, 1>>]]

\* One channel, the optional keys missing, subtype 'bdf', record length 0 and
\* a reversed digital range (negative scale: the fallback applies).
Header2 ==
    [meas |-> [nchan |-> 1, subject_id |-> None, recording_id |-> None,
               subtype |-> Some(BDF),
               day |-> 31, month |-> 12, year |-> 99,
               hour |-> 23, minute |-> 59, second |-> 0, record_length |-> 0],
     chan |-> [ch_names |-> <<>>, transducers |-> <<>>, units |-> <<>>,
               physical_min |-> <<-2>>, physical_max |-> <<3>>,
               digital_min |-> <<1>>, digital_max |-> <<-1>>,
               n_samps |-> <<2>>]]

Headers == {Header1, Header2}

\* Physical sample values and the runs built from them.
SampleValues == <<-3, 2, 7>>
Run(n, shift) == [j \in 1..n |-> SampleValues[((j + shift) % 3) + 1]]

\* The data arguments tried for a header: channel 1 takes either run, the
\* other channels the first; then one argument per channel whose entry for
\* that channel is one sample too long.
GoodBlocks(h) ==
    {[i \in 1..h.meas.nchan |-> Run(h.chan.n_samps[i], IF i = 1 THEN sh ELSE 0)] :
        sh \in {0, 2}}
BadBlocks(h) ==
    {[i \in 1..h.meas.nchan |-> Run(h.chan.n_samps[i] + (IF i = c THEN 1 ELSE 0), 0)] :
        c \in 1..h.meas.nchan}
Blocks(h) == GoodBlocks(h) \cup BadBlocks(h)

BlockIndexes == -1..MaxBlocks
SampleIndexes == -2..5


(***************************************************************************)
(* State.  w_* are the fields of the EDFWriter, r_* those of the           *)
(* EDFReader, file the bytes of the file both are bound to.  result is     *)
(* what the last call returned or raised.  sess is a history variable:     *)
(* the phase of the writer session, whether it has been open on a writer   *)
(* just constructed or closed, one writeHeader, then successful writeBlock *)
(* calls only ("straight"), the                                            *)
(* header argument of the last writeHeader, the data arguments of the      *)
(* successful writeBlock calls since, and the number of successful         *)
(* writeBlock calls since the file was opened.                             *)
(***************************************************************************)
VARIABLES file, w_fname, w_meas_info, w_chan_info, w_calibrate, w_offset,
          w_n_records, r_fname, r_meas_info, r_chan_info, r_calibrate,
          r_offset, result, sess

writer == <<w_fname, w_meas_info, w_chan_info, w_calibrate, w_offset, w_n_records>>
reader == <<r_fname, r_meas_info, r_chan_info, r_calibrate, r_offset>>
vars == <<file, writer, reader, result, sess>>

Path == "rec.edf"

Result(op, ok, args) ==
    [op |-> op, ok |-> ok, args |-> args, warn |-> {}, blk |-> <<>>, smp |-> <<>>]

\* EDFWriter(fname) and EDFReader(): the writer's constructor opens (and
\* truncates) the file, the reader is not bound yet.
Init ==
    /\ file = <<>>
    /\ w_fname = Some(Path)
    /\ w_meas_info = None /\ w_chan_info = None
    /\ w_calibrate = None /\ w_offset = None
    /\ w_n_records = 0
    /\ r_fname = None
    /\ r_meas_info = None /\ r_chan_info = None
    /\ r_calibrate = None /\ r_offset = None
    /\ result = Result("init", TRUE, <<>>)
    /\ sess = [phase |-> "opened", straight |-> TRUE, hdr |-> None, blocks |-> <<>>,
               nblocks |-> 0]

\* The caller does not use the writer while a reader session is bound to the
\* file (one session per file at a time).
ReaderIdle == r_fname = None

\* EDFWriter.open(fname): truncates the file; no other field is reset.
WriterOpen ==
    /\ ReaderIdle
    /\ file' = <<>>
    /\ w_fname' = Some(Path)
    /\ UNCHANGED <<w_meas_info, w_chan_info, w_calibrate, w_offset, w_n_records>>
    /\ UNCHANGED reader
    /\ result' = Result("open", TRUE, <<>>)
    /\ sess' = [sess EXCEPT !.phase = "opened",
                            !.straight = (w_meas_info = None /\ w_n_records = 0),
                            !.blocks = <<>>, !.nblocks = 0]

\* EDFWriter.writeHeader(header): no check of the session's state is made;
\* the file is reopened 'wb' and n_records is left as it is.
WriteHeader(h) ==
    /\ ReaderIdle
    /\ w_fname # None
    /\ LET m == FillMeas(h.meas)
           c == FillChan(h.chan, h.meas.nchan)
           bytes == HeaderBytes(m, c)
       IN  /\ file' = bytes
           /\ w_meas_info' = Some(WriterMeas(h.meas, Len(bytes)))
           /\ w_chan_info' = Some(WriterChan(h.chan, h.meas.nchan))
           /\ w_calibrate' = Some(WriterCalibrate(h.chan, h.meas.nchan))
           /\ w_offset' = Some(WriterOffset(h.chan, h.meas.nchan))
    /\ UNCHANGED <<w_fname, w_n_records>>
    /\ UNCHANGED reader
    /\ result' = Result("writeHeader", TRUE, <<>>)
    /\ sess' = [phase |-> "header",
                straight |-> sess.straight /\ sess.phase = "opened",
                hdr |-> Some(h), blocks |-> <<>>, nblocks |-> sess.nblocks]

\* EDFWriter.writeBlock(data).  On an empty file the assertion of line 206
\* fails before anything is written.
WriteBlock(data, ub) ==
    /\ ReaderIdle
    /\ w_fname # None /\ w_meas_info # None
    /\ w_n_records < MaxBlocks
    /\ LET meas == Val(w_meas_info)
           chan == Val(w_chan_info)
           nchan == meas.nchan
           done == ChannelsWritten(data, chan, nchan)
           bytes == BlockBytes(data, chan, Val(w_calibrate), Val(w_offset), nchan, ub)
           ok == Len(file) > 0 /\ FirstBadChannel(data, chan, nchan) = 0
       IN  /\ Len(file) + Len(bytes)
                <= meas.data_offset + MaxBlocks * 2 * SumSeq(chan.n_samps)
           /\ file' = IF Len(file) > 0 THEN file \o bytes ELSE file
           /\ w_n_records' = IF ok THEN w_n_records + 1 ELSE w_n_records
           /\ result' = [Result("writeBlock", ok, <<>>) EXCEPT
                            !.warn = IF Len(file) > 0
                                     THEN {i \in 1..done : RangeWarned(data[i], chan, i)}
                                     ELSE {}]
           /\ sess' = [sess EXCEPT !.straight = @ /\ ok,
                                   !.blocks = IF ok THEN Append(@, data) ELSE @,
                                   !.nblocks = IF ok THEN @ + 1 ELSE @]
    /\ UNCHANGED <<w_fname, w_meas_info, w_chan_info, w_calibrate, w_offset>>
    /\ UNCHANGED reader

\* EDFWriter.close(): the file is renamed, copied with the record count filled
\* in, and the copy source removed; then every field is reset.
WriterClose ==
    /\ ReaderIdle
    /\ w_fname # None /\ w_meas_info # None
    /\ file' = ClosedFile(file, Val(w_meas_info), Val(w_chan_info), w_n_records)
    /\ w_fname' = None
    /\ w_meas_info' = None /\ w_chan_info' = None
    /\ w_calibrate' = None /\ w_offset' = None
    /\ w_n_records' = 0
    /\ UNCHANGED reader
    /\ result' = Result("close", TRUE, <<w_n_records>>)
    /\ sess' = [sess EXCEPT !.phase = "closed"]

\* EDFReader.open(fname): binds the reader, then readHeader; when readHeader
\* raises, the reader stays bound without a header.
ReaderOpen ==
    /\ r_fname = None
    /\ r_fname' = Some(Path)
    /\ LET hdr == ReadHeader(file)
       IN  IF hdr = None
           THEN /\ UNCHANGED <<r_meas_info, r_chan_info, r_calibrate, r_offset>>
                /\ result' = Result("readHeader", FALSE, <<>>)
           ELSE /\ r_meas_info' = Some(Val(hdr).meas)
                /\ r_chan_info' = Some(Val(hdr).chan)
                /\ r_calibrate' = Some(Val(hdr).calibrate)
                /\ r_offset' = Some(Val(hdr).offset)
                /\ result' = Result("readHeader", TRUE, <<>>)
    /\ UNCHANGED <<file, writer, sess>>

\* EDFReader.close().
ReaderClose ==
    /\ r_fname # None
    /\ r_fname' = None
    /\ r_meas_info' = None /\ r_chan_info' = None
    /\ r_calibrate' = None /\ r_offset' = None
    /\ result' = Result("readerClose", TRUE, <<>>)
    /\ UNCHANGED <<file, writer, sess>>

\* The caller issues one read call per reader session: a read call changes no
\* field of the reader, so a second call returns what it returns as the first
\* call of another session.
FreshReader == result.op = "readHeader"

\* EDFReader.readBlock(block).
ReadBlock(block) ==
    /\ r_fname # None /\ r_meas_info # None
    /\ FreshReader
    /\ LET blk == readBlock(file, Val(r_meas_info), Val(r_chan_info),
                            Val(r_calibrate), Val(r_offset), block)
       IN  result' = [Result("readBlock", blk # None, <<block>>) EXCEPT
                         !.blk = IF blk = None THEN <<>> ELSE Val(blk)]
    /\ UNCHANGED <<file, writer, reader, sess>>

\* EDFReader.readSamples(channel, begsample, endsample); ch = channel + 1.
ReadSamples(ch, begsample, endsample) ==
    /\ r_fname # None /\ r_meas_info # None
    /\ FreshReader
    /\ ch \in 1..Val(r_meas_info).nchan
    /\ LET smp == readSamples(file, Val(r_meas_info), Val(r_chan_info),
                              Val(r_calibrate), Val(r_offset), ch, begsample, endsample)
       IN  result' = [Result("readSamples", smp # None, <<ch, begsample, endsample>>)
                         EXCEPT !.smp = IF smp = None THEN <<>> ELSE Val(smp)]
    /\ UNCHANGED <<file, writer, reader, sess>>

Next ==
    \/ WriterOpen
    \/ \E h \in Headers : WriteHeader(h)
    \/ \E h \in Headers : \E data \in Blocks(h) : \E ub \in UBOutcomes :
          sess.hdr = Some(h) /\ WriteBlock(data, ub)
    \/ WriterClose
    \/ ReaderOpen
    \/ ReaderClose
    \/ \E block \in BlockIndexes : ReadBlock(block)
    \/ \E ch \in 1..2 : \E a \in SampleIndexes : \E b \in SampleIndexes :
          ReadSamples(ch, a, b)

Spec == Init /\ [][Next]_vars


(***************************************************************************)
(* Properties.                                                             *)
(***************************************************************************)
\* The header argument of the last writeHeader and what it declares.
Declared == Val(sess.hdr)
DeclaredMin(c) == RatOfInt(Declared.chan.physical_min[c])
DeclaredMax(c) == RatOfInt(Declared.chan.physical_max[c])

\* A finalized file written by open, one writeHeader and successful
\* writeBlock calls only.
Finalized == sess.phase = "closed" /\ sess.straight

RatLe(x, y) == x = y \/ RatLt(x, y)

\* The complete data records the file holds, by the reader's header.
RecordsInFile ==
    (Len(file) - Val(r_meas_info).data_offset)
        \div ReaderBlockSize(Val(r_meas_info), Val(r_chan_info))

\* f with the 8 bytes of the record-count field overwritten by str(n).
PatchedCount(f, n) ==
    [i \in 1..Len(f) |-> IF i > 236 /\ i <= 244 THEN padtrim(Str(n), 8)[i - 236] ELSE f[i]]

\* C2: close after open, writeHeader and N successful writeBlock calls leaves
\* the file as it was, except that bytes 236..243 hold the text of N: it is the
\* in-place overwrite of the record-count field, and N is the number of calls.
C2_CloseOnlyPatchesCount ==
    [][(result'.op = "close" /\ sess.phase = "header" /\ sess.straight)
         => /\ file' = PatchedCount(file, Len(sess.blocks))
            /\ Len(file') = Val(w_meas_info).data_offset
                  + Len(sess.blocks) * 2 * SumSeq(Val(w_chan_info).n_samps)]_vars

C2_Witness ==
    /\ result.op = "close" /\ Finalized
    /\ Len(sess.blocks) >= 2
    /\ FRead(file, 236, 8) = padtrim(Str(Len(sess.blocks)), 8)

C1_RoundTripHalfStep ==
    (result.op = "readBlock" /\ Finalized
       /\ result.args[1] >= 0 /\ result.args[1] < Len(sess.blocks))
    => /\ result.ok
       /\ \A c \in 1..Declared.meas.nchan :
             \A p \in 1..Declared.chan.n_samps[c] :
                LET v == RatOfInt(sess.blocks[result.args[1] + 1][c][p])
                    scale == Val(r_calibrate)[c]
                IN  (RatLt(<<0, 1>>, scale) /\ RatLe(DeclaredMin(c), v)
                       /\ RatLe(v, DeclaredMax(c)))
                    => RatLe(RatAbs(RatSub(result.blk[c][p], v)),
                             RatDiv(scale, <<2, 1>>))

\* Whether header argument h gives every optional key and no field is
\* defaulted (record length 0 is replaced on reading) or longer than its width.
NeedsNoDefaulting(h) ==
    /\ h.meas.subject_id # None /\ h.meas.recording_id # None
    /\ Len(Val(h.meas.subject_id)) <= 80 /\ Len(Val(h.meas.recording_id)) <= 80
    /\ h.meas.record_length # 0
    /\ Len(h.chan.ch_names) = h.meas.nchan
    /\ Len(h.chan.transducers) = h.meas.nchan
    /\ Len(h.chan.units) = h.meas.nchan
    /\ \A i \in 1..h.meas.nchan :
          /\ Len(h.chan.ch_names[i]) <= 16
          /\ Len(h.chan.transducers[i]) <= 80
          /\ Len(h.chan.units[i]) <= 8

\* C3: the header readHeader returns for a file written by writeHeader(h)
\* equals h field by field, for every h that needs no defaulting or truncation.
C3_HeaderRoundTrip ==
    (result.op = "readHeader" /\ result.ok /\ sess.phase \in {"header", "closed"}
       /\ NeedsNoDefaulting(Declared))
    => LET h == Declared
           m == Val(r_meas_info)
           c == Val(r_chan_info)
       IN  /\ m.subject_id = Val(h.meas.subject_id)
           /\ m.recording_id = Val(h.meas.recording_id)
           /\ m.day = h.meas.day /\ m.month = h.meas.month /\ m.year = h.meas.year
           /\ m.hour = h.meas.hour /\ m.minute = h.meas.minute
           /\ m.second = h.meas.second
           /\ m.record_length = RatOfInt(h.meas.record_length)
           /\ m.nchan = h.meas.nchan
           /\ m.data_offset = 256 + 256 * h.meas.nchan
           /\ c.ch_names = h.chan.ch_names
           /\ c.transducers = h.chan.transducers
           /\ c.units = h.chan.units
           /\ \A i \in 1..h.meas.nchan :
                 /\ c.physical_min[i] = RatOfInt(h.chan.physical_min[i])
                 /\ c.physical_max[i] = RatOfInt(h.chan.physical_max[i])
                 /\ c.digital_min[i] = RatOfInt(h.chan.digital_min[i])
                 /\ c.digital_max[i] = RatOfInt(h.chan.digital_max[i])
                 /\ c.n_samps[i] = RatOfInt(h.chan.n_samps[i])

\* C6: between writeHeader and close bytes 236..243 hold -1, and a reader that
\* opens the file after k successful writeBlock calls reports
\* n_records = (fileSize - data_offset) / data_size / sum(n_samps) = k.
C6_UnfinalizedCount ==
    sess.phase = "header"
    => /\ FRead(file, 236, 8) = padtrim(Str(-1), 8)
       /\ (result.op = "readHeader" /\ result.ok)
          => /\ Val(r_meas_info).n_records
                  = RatDiv(RatDiv(RatOfInt(Len(file) - Val(r_meas_info).data_offset),
                                  RatOfInt(Val(r_meas_info).data_size)),
                           RatOfInt(SumSeq(Declared.chan.n_samps)))
             /\ Val(r_meas_info).n_records = RatOfInt(sess.nblocks)

\* C7: a writeHeader call on a session that already has a header fails and
\* leaves the file, the stored header, the calibration and the record counter
\* unchanged.
C7_SecondHeaderRejected ==
    [][(result'.op = "writeHeader" /\ sess.phase = "header")
         => /\ ~result'.ok
            /\ file' = file
            /\ UNCHANGED <<w_meas_info, w_chan_info, w_calibrate, w_offset, w_n_records>>]_vars

C9_FailedBlockWritesNothing ==
    [][(result'.op = "writeBlock" /\ ~result'.ok)
         => (file' = file /\ w_n_records' = w_n_records)]_vars

\* C10: a successful writeBlock warns for channel c exactly when a value of
\* that channel's entry lies outside [physical_min[c], physical_max[c]] as
\* given to writeHeader.
C10_WarnsExactlyOutOfRange ==
    (result.op = "writeBlock" /\ result.ok)
    => \A c \in 1..Declared.meas.nchan :
          LET run == sess.blocks[Len(sess.blocks)][c]
          IN  c \in result.warn
              <=> \E p \in 1..Len(run) :
                     \/ RatLt(RatOfInt(run[p]), DeclaredMin(c))
                     \/ RatLt(DeclaredMax(c), RatOfInt(run[p]))


(***************************************************************************)
(* Calibration: writeHeader and readHeader over a grid of one-channel      *)
(* headers whose physical and digital bounds take every order.             *)
(***************************************************************************)
CalRange == -1..1
CalHeader(pmin, pmax, dmin, dmax) ==
    [Header2 EXCEPT !.chan.physical_min = <<pmin>>, !.chan.physical_max = <<pmax>>,
                    !.chan.digital_min = <<dmin>>, !.chan.digital_max = <<dmax>>]
CalHeaders ==
    {CalHeader(pmin, pmax, dmin, dmax) :
        pmin \in CalRange, pmax \in CalRange, dmin \in CalRange, dmax \in CalRange}

NextCal ==
    \/ \E h \in CalHeaders : WriteHeader(h)
    \/ ReaderOpen
    \/ ReaderClose

SpecCal == Init /\ [][NextCal]_vars

\* What the claim C5 says of the scale and offset derived for channel i of the
\* declared header.
DerivedAsClaimed(scale, off, i) ==
    LET pmin == Declared.chan.physical_min[i]
        pmax == Declared.chan.physical_max[i]
        dmin == Declared.chan.digital_min[i]
        dmax == Declared.chan.digital_max[i]
    IN  IF dmax > dmin /\ pmax > pmin
        THEN /\ RatLt(<<0, 1>>, scale)
             /\ scale = Norm(pmax - pmin, dmax - dmin)
             /\ off = RatSub(RatOfInt(pmin), RatMul(scale, RatOfInt(dmin)))
        ELSE scale = <<1, 1>> /\ off = <<0, 1>>

\* C5: writeHeader and readHeader derive, for a channel with
\* digital_max > digital_min and physical_max > physical_min, a scale > 0 equal
\* to (physical_max - physical_min)/(digital_max - digital_min) with
\* offset = physical_min - scale*digital_min, and for a channel with a
\* degenerate range (digital_max <= digital_min or physical_max <= physical_min)
\* scale 1 and offset 0.
C5_CalibrationDerivation ==
    /\ (sess.phase = "header" /\ w_calibrate # None)
       => \A i \in 1..Declared.meas.nchan :
             DerivedAsClaimed(Val(w_calibrate)[i], Val(w_offset)[i], i)
    /\ (sess.phase = "header" /\ result.op = "readHeader" /\ result.ok)
       => \A i \in 1..Declared.meas.nchan :
             DerivedAsClaimed(Val(r_calibrate)[i], Val(r_offset)[i], i)

=============================================================================
